---- MODULE Spec2Model ----
(***************************************************************************)
(* Near-duplicate JPEG finder (scripts/find_near_duplicates.py): the       *)
(* Hamming distance of 64-bit average hashes, the disjoint-set structure   *)
(* DSU, and main's pipeline: argument checks, hashing, pairwise            *)
(* comparison, component collection, keep selection, review manifest and   *)
(* the optional deletion.                                                  *)
(*                                                                         *)
(* Python integers are unbounded; a 64-bit fingerprint is kept here as     *)
(* four 16-bit limbs, most significant first, because XOR and bit_count    *)
(* act on each bit independently.  Item indices are 0-based as in the      *)
(* source; TLA+ sequences (groups, manifests) are 1-based.                 *)
(***************************************************************************)
EXTENDS Integers, Sequences, FiniteSets, TLC

\* ---------------------------------------------------------------- bounds
MaxItems == 4
MaxFiles == 4

\* ------------------------------------------------------- program constants
HashBits == 64
LimbBits == 16
MaxThreshold == 64

NumLimbs == HashBits \div LimbBits
LimbTop == (2 ^ LimbBits) - 1

VARIABLES
  \* main() of find_near_duplicates.py
  pc, args, rootExists, disk, thr, files, hashes, failures, dsu, pairs,
  unionCalls, comps, groups, review, removedLog, gi, di, rc,
  \* DSU driven by arbitrary callers
  linked, lastFind,
  \* hamming() applied to drawn fingerprints
  fa, fb, fc, dist

mainVars == <<pc, args, rootExists, disk, thr, files, hashes, failures, dsu,
              pairs, unionCalls, comps, groups, review, removedLog, gi, di, rc>>
dsuVars == <<linked, lastFind>>
hamVars == <<fa, fb, fc, dist>>
vars == <<mainVars, dsuVars, hamVars>>

\* ------------------------------------------------------------ fingerprints
\* The value ahash() returns on success: 64 bits packed by bits = (bits << 1) | b.
Zero64 == [k \in 1..NumLimbs |-> 0]
Ones64 == [k \in 1..NumLimbs |-> LimbTop]
LowBits(v) == [k \in 1..NumLimbs |-> IF k = NumLimbs THEN v ELSE 0]
HighBits(v) == [k \in 1..NumLimbs |-> IF k = 1 THEN v ELSE 0]

\* hashes.append(-1): the failure marker, told apart by its sign (hi < 0).
FailMarker == <<-1>>
IsFailed(h) == h[1] < 0

\* Bit k (0 = least significant) of fingerprint h.
BitOf(h, k) == (h[NumLimbs - (k \div LimbBits)] \div (2 ^ (k % LimbBits))) % 2

\* x ^ y on one limb, bit by bit from the least significant one.
XorLimb[x \in Nat, y \in Nat] ==
  IF x = 0 /\ y = 0 THEN 0
  ELSE (((x % 2) + (y % 2)) % 2) + (2 * XorLimb[x \div 2, y \div 2])

\* a ^ b
Xor(a, b) == [k \in 1..NumLimbs |-> XorLimb[a[k], b[k]]]

\* The number of ones in the binary form of x.
PopCount[x \in Nat] == IF x = 0 THEN 0 ELSE (x % 2) + PopCount[x \div 2]

SumLimbs[v \in Seq(Nat)] ==
  IF v = <<>> THEN 0 ELSE PopCount[Head(v)] + SumLimbs[Tail(v)]

\* int.bit_count()
BitCount(v) == SumLimbs[v]

\* A plausible slip: counting the bits set in both (a & b) instead of the
\* differing ones.
HammingAnd(a, b) ==
  BitCount([k \in 1..NumLimbs |-> (a[k] + b[k] - XorLimb[a[k], b[k]]) \div 2])

\* hamming(a, b) = (a ^ b).bit_count()
hamming(a, b) == BitCount(Xor(a, b))

\* ------------------------------------------------------------------- DSU
\* DSU.__init__: p = list(range(n)), r = [0] * n
NewDSU(n) == [p |-> [x \in 0..(n - 1) |-> x], r |-> [x \in 0..(n - 1) |-> 0]]

Size(d) == Cardinality(DOMAIN d.p)

\* The while loop of DSU.find run for at most `fuel` iterations; done tells
\* whether the loop condition p[x] != x became false within them.
RECURSIVE FindLoop(_, _, _)
FindLoop(d, x, fuel) ==
  IF d.p[x] = x THEN [dsu |-> d, root |-> x, done |-> TRUE]
  ELSE IF fuel = 0 THEN [dsu |-> d, root |-> x, done |-> FALSE]
  ELSE LET d1 == [d EXCEPT !.p[x] = d.p[d.p[x]]]
       IN FindLoop(d1, d1.p[x], fuel - 1)

\* A find whose compression assigns in the wrong direction: p[p[x]] = x.
FindSkewed(d, x) ==
  LET q == d.p[x]
      d1 == [d EXCEPT !.p[q] = x]
  IN IF d.p[x] = x THEN [dsu |-> d, root |-> x, done |-> TRUE]
     ELSE FindLoop(d1, d1.p[x], Size(d))

\* DSU.find(x): the new structure, the root returned, and whether it returned.
find(d, x) == FindLoop(d, x, Size(d))

\* A union that links the arguments themselves instead of their roots.
UnionNoFind(d, a, b) ==
  IF a = b THEN d
  ELSE LET d3 == [d EXCEPT !.p[b] = a]
       IN IF d3.r[a] = d3.r[b] THEN [d3 EXCEPT !.r[a] = @ + 1] ELSE d3

\* DSU.union(a, b)
union(d, a, b) ==
  LET f1 == find(d, a)
      f2 == find(f1.dsu, b)
      d2 == f2.dsu
      swap == d2.r[f1.root] < d2.r[f2.root]
      ra == IF swap THEN f2.root ELSE f1.root
      rb == IF swap THEN f1.root ELSE f2.root
      d3 == [d2 EXCEPT !.p[rb] = ra]
  IN IF f1.root = f2.root THEN d2
     ELSE IF d3.r[ra] = d3.r[rb] THEN [d3 EXCEPT !.r[ra] = @ + 1]
     ELSE d3

\* ------------------------------------------------------- paths and sorting
\* Path strings as sequences of character codes; the directory holds the
\* first n of these, for some n <= MaxFiles.
AllPaths == << <<1>>, <<2>>, <<1, 2>>, <<1, 1>>, <<2, 1>>, <<1, 1, 1>> >>
Directories ==
  {{AllPaths[k] : k \in 1..n} : n \in {j \in 0..Len(AllPaths) : j <= MaxFiles}}

\* str(p) < str(q), Python's ordering of strings: the first differing
\* character decides, and a proper prefix is smaller.
LexLess(a, b) ==
  \E k \in 1..(Len(a) + 1) :
    /\ k <= Len(b)
    /\ \A m \in 1..(k - 1) : a[m] = b[m]
    /\ \/ k > Len(a)
       \/ a[k] < b[k]

\* Python's ordering of lists of strings: the first differing string decides,
\* and a proper prefix is smaller.
PathListLess(a, b) ==
  \E k \in 1..(Len(a) + 1) :
    /\ k <= Len(b)
    /\ \A m \in 1..(k - 1) : a[m] = b[m]
    /\ \/ k > Len(a)
       \/ LexLess(a[k], b[k])

\* sorted(paths, key=lambda p: str(p)): stable; an element's place is the
\* number of elements that come before it.
SortPaths(s) ==
  [k \in 1..Len(s) |->
     s[CHOOSE i \in 1..Len(s) :
         Cardinality({j \in 1..Len(s) :
                        \/ LexLess(s[j], s[i])
                        \/ (~LexLess(s[i], s[j]) /\ j < i)}) = k - 1]]

\* sorted(idxs)
SortInts(s) ==
  [k \in 1..Len(s) |->
     s[CHOOSE i \in 1..Len(s) :
         Cardinality({j \in 1..Len(s) :
                        \/ s[j] < s[i]
                        \/ (s[j] = s[i] /\ j < i)}) = k - 1]]

\* iter_image_paths(root): the .jpg/.jpeg files under root, in the order the
\* directory walk yields them.
iter_image_paths(d) ==
  CHOOSE s \in [1..Cardinality(d) -> d] : {s[k] : k \in DOMAIN s} = d

\* ------------------------------------------------------------ configuration
Modes == {"conservative", "medium", "aggressive"}

\* mode_to_threshold(mode); argparse admits only the three lower-case names.
mode_to_threshold(mode) ==
  IF mode \in {"conservative", "c"} THEN 5
  ELSE IF mode \in {"aggressive", "a"} THEN 16
  ELSE 10

\* args.threshold: <<>> is None, <<t>> an explicit --threshold t.
\* The command lines tried: every mode and some explicit thresholds without
\* --delete, two out-of-range thresholds with and without --delete --yes, and
\* every combination of --delete and --yes in conservative mode.
ExplicitThresholds == {-1, 0, 63, 64, 65}

ArgSet ==
  {[mode |-> m, threshold |-> <<>>, delete |-> FALSE, yes |-> FALSE] : m \in Modes}
  \cup
  {[mode |-> "medium", threshold |-> <<t>>, delete |-> FALSE, yes |-> FALSE] :
     t \in ExplicitThresholds}
  \cup
  {[mode |-> "medium", threshold |-> <<t>>, delete |-> TRUE, yes |-> TRUE] :
     t \in {-1, 65}}
  \cup
  {[mode |-> "conservative", threshold |-> <<>>, delete |-> d, yes |-> y] :
     d \in BOOLEAN, y \in BOOLEAN}

\* thr = args.threshold if args.threshold is not None else mode_to_threshold(args.mode)
ThresholdOf(a) ==
  IF a.threshold # <<>> THEN a.threshold[1] ELSE mode_to_threshold(a.mode)

\* A range check that forgets the upper end.
OutOfRangeLowOnly(t) == t < 0

\* thr < 0 or thr > 64
OutOfRange(t) == t < 0 \/ t > MaxThreshold

\* What ahash(p) can do for a file: raise, or return one of these fingerprints.
HashOutcomes == {FailMarker, Zero64, LowBits(15), LowBits(255), Ones64}

\* ------------------------------------------------ main: comparison loop
\* A threshold test that asks for the exact distance.
WithinExact(hi, hj, t) == hamming(hi, hj) = t

\* if hamming(hi, hj) <= thr
Within(hi, hj, t) == hamming(hi, hj) <= t

\* The nested loops over i and j > i of main, from position (i, j) on:
\* failed items are skipped, and a pair within the threshold is united and
\* counted.  calls records the pairs handed to dsu.union.
RECURSIVE CompareFrom(_, _, _, _, _)
CompareFrom(hs, t, st, i, j) ==
  LET n == Size(st.dsu) IN
  IF i >= n THEN st
  ELSE IF IsFailed(hs[i]) THEN CompareFrom(hs, t, st, i + 1, i + 2)
  ELSE IF j >= n THEN CompareFrom(hs, t, st, i + 1, i + 2)
  ELSE IF IsFailed(hs[j]) THEN CompareFrom(hs, t, st, i, j + 1)
  ELSE IF Within(hs[i], hs[j], t)
    THEN CompareFrom(hs, t,
                     [dsu |-> union(st.dsu, i, j),
                      pairs |-> st.pairs + 1,
                      calls |-> st.calls \cup {<<i, j>>}],
                     i, j + 1)
  ELSE CompareFrom(hs, t, st, i, j + 1)

\* A comparison loop that only looks at neighbours in the sorted file list.
CompareNeighbours(hs, t) ==
  LET n == Cardinality(DOMAIN hs)
      near == {i \in 0..(n - 2) :
                 /\ ~IsFailed(hs[i]) /\ ~IsFailed(hs[i + 1])
                 /\ Within(hs[i], hs[i + 1], t)}
      link[k \in 0..(n - 1)] ==
        IF k = 0 THEN NewDSU(n)
        ELSE IF (k - 1) \in near THEN union(link[k - 1], k - 1, k)
        ELSE link[k - 1]
  IN [dsu |-> IF n = 0 THEN NewDSU(0) ELSE link[n - 1],
      pairs |-> Cardinality(near),
      calls |-> {<<i, i + 1>> : i \in near}]

\* A comparison loop without the hi < 0 / hj < 0 guards: the marker -1 is
\* compared like a fingerprint (distance 0 to another marker).
CompareUnguarded(hs, t) ==
  LET n == Cardinality(DOMAIN hs)
      bad == {i \in 0..(n - 1) : IsFailed(hs[i])}
      first == CHOOSE i \in bad : \A k \in bad : i <= k
      base == CompareFrom(hs, t, [dsu |-> NewDSU(n), pairs |-> 0, calls |-> {}], 0, 1)
      link[k \in 0..(n - 1)] ==
        LET prev == IF k = 0 THEN base.dsu ELSE link[k - 1]
        IN IF k \in bad /\ k # first THEN union(prev, first, k) ELSE prev
  IN IF bad = {} THEN base
     ELSE [dsu |-> link[n - 1],
           pairs |-> base.pairs + Cardinality(bad) - 1,
           calls |-> base.calls \cup {<<first, k>> : k \in bad \ {first}}]

\* n = len(files); dsu = DSU(n); pairs = 0; the comparison loop.
Compare(hs, t) ==
  CompareFrom(hs, t,
              [dsu |-> NewDSU(Cardinality(DOMAIN hs)), pairs |-> 0, calls |-> {}],
              0, 1)

\* ------------------------------------------------ main: collect components
\* comps.setdefault(root_idx, []).append(idx); comps keeps the dict's
\* insertion order as a sequence of [root, idxs].
AddToComps(cs, root, idx) ==
  IF \E k \in 1..Len(cs) : cs[k].root = root
    THEN [k \in 1..Len(cs) |->
            IF cs[k].root = root
              THEN [root |-> root, idxs |-> Append(cs[k].idxs, idx)]
              ELSE cs[k]]
    ELSE Append(cs, [root |-> root, idxs |-> <<idx>>])

\* for idx in range(n): skip failed items, find the root, file idx under it.
RECURSIVE CollectFrom(_, _, _)
CollectFrom(hs, st, idx) ==
  IF idx >= Size(st.dsu) THEN st
  ELSE IF IsFailed(hs[idx]) THEN CollectFrom(hs, st, idx + 1)
  ELSE LET f == find(st.dsu, idx)
       IN CollectFrom(hs,
                      [dsu |-> f.dsu, comps |-> AddToComps(st.comps, f.root, idx)],
                      idx + 1)

\* comps = {}; the collection loop over range(n).
Collect(hs, d) == CollectFrom(hs, [dsu |-> d, comps |-> <<>>], 0)

RECURSIVE KeepLarge(_)
KeepLarge(cs) ==
  IF cs = <<>> THEN <<>>
  ELSE IF Len(Head(cs).idxs) > 1
    THEN <<SortInts(Head(cs).idxs)>> \o KeepLarge(Tail(cs))
  ELSE KeepLarge(Tail(cs))

PathsOf(fs, g) == [k \in 1..Len(g) |-> fs[g[k]]]

\* key=lambda g: (len(g), [str(files[i]) for i in g])
GroupKeyLess(fs, g1, g2) ==
  \/ Len(g1) < Len(g2)
  \/ /\ Len(g1) = Len(g2)
     /\ PathListLess(PathsOf(fs, g1), PathsOf(fs, g2))

\* groups.sort(key=...): stable.
SortGroups(fs, gs) ==
  [k \in 1..Len(gs) |->
     gs[CHOOSE i \in 1..Len(gs) :
          Cardinality({j \in 1..Len(gs) :
                         \/ GroupKeyLess(fs, gs[j], gs[i])
                         \/ (~GroupKeyLess(fs, gs[i], gs[j]) /\ j < i)}) = k - 1]]

\* A group list that keeps singletons (len(idxs) > 0).
GroupsWithSingletons(fs, cs) ==
  SortGroups(fs, [k \in 1..Len(cs) |-> cs[k].idxs])

\* groups = [sorted(idxs) for idxs in comps.values() if len(idxs) > 1]; groups.sort(key=...)
MakeGroups(fs, cs) ==
  SortGroups(fs, KeepLarge(cs))

\* The groups a whole run reports for hashes hs at threshold t.
GroupsAt(fs, hs, t) == MakeGroups(fs, Collect(hs, Compare(hs, t).dsu).comps)

\* --------------------------------------------------- main: keep selection
\* A resolver that keeps the last path of the sorted list.
ResolveKeepLast(fs, g) ==
  LET ps == SortPaths(PathsOf(fs, g))
  IN [keep |-> ps[Len(ps)], dupes |-> SubSeq(ps, 1, Len(ps) - 1), size |-> Len(ps)]

\* paths_sorted = sorted(paths, key=str); keep = paths_sorted[0]; dupes = paths_sorted[1:]
Resolve(fs, g) ==
  LET ps == SortPaths(PathsOf(fs, g))
  IN [keep |-> ps[1], dupes |-> Tail(ps), size |-> Len(ps)]

\* A deletion loop that walks the whole sorted group.
DeleteWholeGroup(fs, g) == SortPaths(PathsOf(fs, g))

\* The deletion loop's own paths_sorted[1:] of a group.
DeleteTargets(fs, g) == Resolve(fs, g).dupes

\* ------------------------------------------------------------ main: state
\* Values of locals before main assigns them.
Unset == <<>>

AsFunction(s) == [i \in 0..(Len(s) - 1) |-> s[i + 1]]

NoRunYet ==
  /\ thr = 0 /\ files = Unset /\ hashes = Unset /\ failures = Unset
  /\ pairs = 0 /\ unionCalls = {} /\ comps = Unset /\ groups = Unset
  /\ review = Unset /\ removedLog = Unset /\ gi = 0 /\ di = 0 /\ rc = -1

\* main is entered with parsed arguments and some directory state.
Init ==
  /\ pc = "start"
  /\ args \in ArgSet
  /\ rootExists \in BOOLEAN
  /\ disk \in Directories
  /\ (~rootExists => disk = {})
  /\ dsu = NewDSU(0)
  /\ NoRunYet
  /\ linked = {} /\ lastFind = Unset
  /\ fa = Zero64 /\ fb = Zero64 /\ fc = Zero64 /\ dist = Unset

otherVars == <<dsuVars, hamVars>>

\* if not root.exists(): return 2
RootNotFound ==
  /\ pc = "start" /\ ~rootExists
  /\ rc' = 2 /\ pc' = "done"
  /\ UNCHANGED <<args, rootExists, disk, thr, files, hashes, failures, dsu, pairs,
                 unionCalls, comps, groups, review, removedLog, gi, di, otherVars>>

\* if thr < 0 or thr > 64: return 2
BadThreshold ==
  /\ pc = "start" /\ rootExists
  /\ OutOfRange(ThresholdOf(args))
  /\ thr' = ThresholdOf(args)
  /\ rc' = 2 /\ pc' = "done"
  /\ UNCHANGED <<args, rootExists, disk, files, hashes, failures, dsu, pairs,
                 unionCalls, comps, groups, review, removedLog, gi, di, otherVars>>

\* files = sorted(iter_image_paths(root), key=lambda p: str(p))
ListFiles ==
  /\ pc = "start" /\ rootExists
  /\ ~OutOfRange(ThresholdOf(args))
  /\ thr' = ThresholdOf(args)
  /\ files' = AsFunction(SortPaths(iter_image_paths(disk)))
  /\ pc' = "hash"
  /\ UNCHANGED <<args, rootExists, disk, hashes, failures, dsu, pairs,
                 unionCalls, comps, groups, review, removedLog, gi, di, rc, otherVars>>

\* The hashing loop: every file gets a fingerprint or the marker -1, and the
\* files that raised are appended to failures in file order.
HashFiles ==
  /\ pc = "hash"
  /\ \E hs \in [DOMAIN files -> HashOutcomes] :
       /\ hashes' = hs
       /\ failures' =
            LET bad == {i \in DOMAIN files : IsFailed(hs[i])}
            IN [k \in 1..Cardinality(bad) |->
                  files[CHOOSE i \in bad : Cardinality({j \in bad : j < i}) = k - 1]]
  /\ pc' = "compare"
  /\ UNCHANGED <<args, rootExists, disk, thr, files, dsu, pairs,
                 unionCalls, comps, groups, review, removedLog, gi, di, rc, otherVars>>

\* dsu = DSU(n) and the pairwise comparison loop.
ComparePairs ==
  /\ pc = "compare"
  /\ \E st \in {Compare(hashes, thr)} :
        /\ dsu' = st.dsu
        /\ pairs' = st.pairs
        /\ unionCalls' = st.calls
  /\ pc' = "collect"
  /\ UNCHANGED <<args, rootExists, disk, thr, files, hashes, failures,
                 comps, groups, review, removedLog, gi, di, rc, otherVars>>

\* Collect components, keep those with more than one member, sort the groups.
CollectGroups ==
  /\ pc = "collect"
  /\ \E st \in {Collect(hashes, dsu)} :
        /\ dsu' = st.dsu
        /\ comps' = st.comps
        /\ groups' = MakeGroups(files, st.comps)
  /\ pc' = "report"
  /\ UNCHANGED <<args, rootExists, disk, thr, files, hashes, failures, pairs,
                 unionCalls, review, removedLog, gi, di, rc, otherVars>>

\* The review manifest is written: the failures and, per group, its size,
\* KEEP and DEL? lines.  review holds the manifests written (none or one).
WriteReview ==
  /\ pc = "report"
  /\ review' = <<[fails |-> failures,
                  groups |-> [k \in 1..Len(groups) |-> Resolve(files, groups[k])]]>>
  /\ pc' = "decide"
  /\ UNCHANGED <<args, rootExists, disk, thr, files, hashes, failures, dsu, pairs,
                 unionCalls, comps, groups, removedLog, gi, di, rc, otherVars>>

\* if args.delete is false: return 0
NoDelete ==
  /\ pc = "decide" /\ ~args.delete
  /\ rc' = 0 /\ pc' = "done"
  /\ UNCHANGED <<args, rootExists, disk, thr, files, hashes, failures, dsu, pairs,
                 unionCalls, comps, groups, review, removedLog, gi, di, otherVars>>

\* --delete specified without --yes; skipping deletion: return 0
DeleteWithoutYes ==
  /\ pc = "decide" /\ args.delete /\ ~args.yes
  /\ rc' = 0 /\ pc' = "done"
  /\ UNCHANGED <<args, rootExists, disk, thr, files, hashes, failures, dsu, pairs,
                 unionCalls, comps, groups, review, removedLog, gi, di, otherVars>>

\* The removal manifest is opened and the loop over groups starts.
BeginDelete ==
  /\ pc = "decide" /\ args.delete /\ args.yes
  /\ removedLog' = <<[kind |-> "HEAD", path |-> <<>>]>>
  /\ gi' = 1 /\ di' = 1
  /\ pc' = "group"
  /\ UNCHANGED <<args, rootExists, disk, thr, files, hashes, failures, dsu, pairs,
                 unionCalls, comps, groups, review, rc, otherVars>>

\* for gi, group in enumerate(groups, 1): the KEEP line of the next group.
EnterGroup ==
  /\ pc = "group" /\ gi <= Len(groups)
  /\ removedLog' = Append(removedLog,
                          [kind |-> "KEEP", path |-> Resolve(files, groups[gi]).keep])
  /\ di' = 1
  /\ pc' = "dupes"
  /\ UNCHANGED <<args, rootExists, disk, thr, files, hashes, failures, dsu, pairs,
                 unionCalls, comps, groups, review, gi, rc, otherVars>>

\* os.remove(d) succeeds: the file is gone and a DEL line is written.
RemoveOk ==
  /\ pc = "dupes"
  /\ LET dupes == DeleteTargets(files, groups[gi])
     IN /\ di <= Len(dupes)
        /\ dupes[di] \in disk
        /\ disk' = disk \ {dupes[di]}
        /\ removedLog' = Append(removedLog, [kind |-> "DEL", path |-> dupes[di]])
  /\ di' = di + 1
  /\ UNCHANGED <<pc, args, rootExists, thr, files, hashes, failures, dsu, pairs,
                 unionCalls, comps, groups, review, gi, rc, otherVars>>

\* os.remove(d) raises: a FAIL line is written and the loop goes on.
RemoveFail ==
  /\ pc = "dupes"
  /\ LET dupes == DeleteTargets(files, groups[gi])
     IN /\ di <= Len(dupes)
        /\ removedLog' = Append(removedLog, [kind |-> "FAIL", path |-> dupes[di]])
  /\ di' = di + 1
  /\ UNCHANGED <<pc, args, rootExists, disk, thr, files, hashes, failures, dsu, pairs,
                 unionCalls, comps, groups, review, gi, rc, otherVars>>

\* The inner loop over dupes is exhausted: on to the next group.
NextGroup ==
  /\ pc = "dupes"
  /\ di > Len(DeleteTargets(files, groups[gi]))
  /\ gi' = gi + 1
  /\ pc' = "group"
  /\ UNCHANGED <<args, rootExists, disk, thr, files, hashes, failures, dsu, pairs,
                 unionCalls, comps, groups, review, removedLog, di, rc, otherVars>>

\* The loop over groups is exhausted: return 0
FinishDelete ==
  /\ pc = "group" /\ gi > Len(groups)
  /\ rc' = 0 /\ pc' = "done"
  /\ UNCHANGED <<args, rootExists, disk, thr, files, hashes, failures, dsu, pairs,
                 unionCalls, comps, groups, review, removedLog, gi, di, otherVars>>

Next ==
  \/ RootNotFound \/ BadThreshold \/ ListFiles \/ HashFiles \/ ComparePairs
  \/ CollectGroups \/ WriteReview \/ NoDelete \/ DeleteWithoutYes \/ BeginDelete
  \/ EnterGroup \/ RemoveOk \/ RemoveFail \/ NextGroup \/ FinishDelete

Spec == Init /\ [][Next]_vars

\* ------------------------------------------- DSU under arbitrary callers
\* A DSU of n items receives any union and find calls with valid indices.
\* linked is the relation "connected by the union calls made so far": it
\* starts as the identity and each union(a, b) joins the classes of a and b.
\* lastFind records the last find call and what it returned.
Items == DOMAIN dsu.p

MainIdle ==
  /\ pc = "idle" /\ args = Unset /\ rootExists = FALSE /\ disk = {}
  /\ NoRunYet

DsuInit ==
  /\ \E n \in 1..MaxItems :
       /\ dsu = NewDSU(n)
       /\ linked = {<<x, x>> : x \in 0..(n - 1)}
  /\ lastFind = Unset
  /\ MainIdle
  /\ fa = Zero64 /\ fb = Zero64 /\ fc = Zero64 /\ dist = Unset

idleMainVars == <<pc, args, rootExists, disk, thr, files, hashes, failures, pairs,
                  unionCalls, comps, groups, review, removedLog, gi, di, rc>>

JoinClasses(rel, a, b) ==
  rel \cup {<<x, y>> \in Items \X Items :
              \/ <<x, a>> \in rel /\ <<b, y>> \in rel
              \/ <<x, b>> \in rel /\ <<a, y>> \in rel}

CallUnion(a, b) ==
  /\ pc = "idle"
  /\ dsu' = union(dsu, a, b)
  /\ linked' = JoinClasses(linked, a, b)
  /\ lastFind' = Unset
  /\ UNCHANGED <<idleMainVars, hamVars>>

CallFind(x) ==
  /\ pc = "idle"
  /\ LET f == find(dsu, x)
     IN /\ dsu' = f.dsu
        /\ lastFind' = <<[x |-> x, root |-> f.root, returned |-> f.done,
                          before |-> dsu]>>
  /\ UNCHANGED <<linked, idleMainVars, hamVars>>

DsuNext ==
  \/ \E a \in Items, b \in Items : CallUnion(a, b)
  \/ \E x \in Items : CallFind(x)

DsuSpec == DsuInit /\ [][DsuNext]_vars

\* --------------------------------------------- hamming on drawn fingerprints
FingerprintSamples ==
  { Zero64, Ones64, LowBits(15), LowBits(255), LowBits(1), HighBits(32768),
    [k \in 1..NumLimbs |-> 43690], [k \in 1..NumLimbs |-> 21845],
    [k \in 1..NumLimbs |-> IF k % 2 = 0 THEN LimbTop ELSE 0] }

HamInit ==
  /\ fa \in FingerprintSamples /\ fb \in FingerprintSamples
  /\ fc \in FingerprintSamples
  /\ dist = Unset
  /\ MainIdle /\ dsu = NewDSU(0)
  /\ linked = {} /\ lastFind = Unset

\* hamming is called on each pair of the drawn fingerprints.
Measure ==
  /\ pc = "idle" /\ dist = Unset
  /\ dist' = <<[ab |-> hamming(fa, fb), ba |-> hamming(fb, fa),
                aa |-> hamming(fa, fa), bc |-> hamming(fb, fc),
                ac |-> hamming(fa, fc)]>>
  /\ UNCHANGED <<mainVars, dsuVars, fa, fb, fc>>

HamNext == Measure

HamSpec == HamInit /\ [][HamNext]_vars

\* ---------------------------------------------------------------- claims
\* The root find returns, for comparing roots without keeping the compression.
RootIn(d, x) == find(d, x).root

\* linked is an equivalence relation on the items (it is the reflexive,
\* symmetric, transitive closure of the union calls).
LinkedIsEquivalence ==
  /\ \A x \in Items : <<x, x>> \in linked
  /\ \A x \in Items, y \in Items : <<x, y>> \in linked => <<y, x>> \in linked
  /\ \A x \in Items, y \in Items, z \in Items :
       (<<x, y>> \in linked /\ <<y, z>> \in linked) => <<x, z>> \in linked

\* C1: after any sequence of union and find calls on a DSU of n items, for
\* all x, y in [0, n), find(x) == find(y) (find(x) evaluated first, find(y)
\* on the structure it leaves) exactly when x and y are connected by the
\* reflexive-symmetric-transitive closure of the union calls made so far.
C1_FindEqualIffConnected ==
  /\ LinkedIsEquivalence
  /\ \A x \in Items, y \in Items :
       LET f1 == find(dsu, x)
           f2 == find(f1.dsu, y)
       IN (f1.root = f2.root) <=> (<<x, y>> \in linked)

\* Four items in two classes of two, built by union calls.
C1_Witness ==
  /\ Size(dsu) = 4
  /\ <<0, 1>> \in linked /\ <<2, 3>> \in linked /\ <<1, 2>> \notin linked
  /\ RootIn(dsu, 0) = RootIn(dsu, 1) /\ RootIn(dsu, 1) # RootIn(dsu, 2)

\* C9: in every DSU state reachable by union and find calls, find(x) returns
\* (its loop ends within n iterations) an index r in [0, n) with p[r] == r;
\* find again on x or on r returns the same r; and the compression leaves
\* every rank and the partition (which items share a root) unchanged.
C9_FindTerminatesStable ==
  /\ \A x \in Items :
       LET f == find(dsu, x)
       IN /\ f.done
          /\ f.root \in Items
          /\ f.dsu.p[f.root] = f.root
          /\ find(f.dsu, x).done /\ find(f.dsu, x).root = f.root
          /\ find(f.dsu, f.root).root = f.root
          /\ f.dsu.r = dsu.r
          /\ DOMAIN f.dsu.p = DOMAIN dsu.p
          /\ \A y \in Items, z \in Items :
               (RootIn(dsu, y) = RootIn(dsu, z))
                 <=> (RootIn(f.dsu, y) = RootIn(f.dsu, z))
  /\ lastFind # Unset =>
       /\ lastFind[1].returned
       /\ lastFind[1].root \in Items
       /\ dsu.p[lastFind[1].root] = lastFind[1].root
       /\ dsu.r = lastFind[1].before.r

\* A find call that returned and whose compression rewrote a parent pointer.
C9_Witness ==
  /\ lastFind # Unset
  /\ lastFind[1].returned
  /\ lastFind[1].before.p # dsu.p
  /\ lastFind[1].root # lastFind[1].x

\* C8: hamming(a, b) of 64-bit fingerprints is the number of bit positions
\* in which a and b differ, lies in 0..64, is symmetric, is 0 for a == b,
\* and satisfies the triangle inequality.
C8_HammingIsMetric ==
  dist # Unset =>
    /\ dist[1].ab \in 0..HashBits
    /\ dist[1].ab = Cardinality({k \in 0..(HashBits - 1) : BitOf(fa, k) # BitOf(fb, k)})
    /\ dist[1].ab = dist[1].ba
    /\ dist[1].aa = 0
    /\ dist[1].ac <= dist[1].ab + dist[1].bc

\* Complementary fingerprints measured: distance 64, with a third halfway.
C8_Witness ==
  /\ dist # Unset
  /\ dist[1].ab = HashBits
  /\ dist[1].bc = 32 /\ dist[1].ac = 32

\* ----- main's pipeline
Range(s) == {s[k] : k \in DOMAIN s}

Returned0 == pc = "done" /\ rc = 0
Collected == pc \in {"report", "decide", "group", "dupes"} \/ Returned0
Compared == pc = "collect" \/ Collected
Hashed == pc = "compare" \/ Compared
Reviewed == review # Unset

Valid == {i \in DOMAIN hashes : ~IsFailed(hashes[i])}
Failed == {i \in DOMAIN hashes : IsFailed(hashes[i])}

\* The number of differing bit positions, counted position by position.
DiffBits(a, b) == Cardinality({k \in 0..(HashBits - 1) : BitOf(a, k) # BitOf(b, k)})

\* The similarity edges among valid items at threshold t (each unordered
\* pair measured once, then taken in both directions).
CloseUp(t) ==
  {e \in Valid \X Valid : e[1] < e[2] /\ DiffBits(hashes[e[1]], hashes[e[2]]) <= t}

Edges(t) == UNION {{e, <<e[2], e[1]>>} : e \in CloseUp(t)}

RECURSIVE Grow(_, _)
Grow(S, E) ==
  LET T == S \cup {y \in Valid : \E x \in S : <<x, y>> \in E}
  IN IF T = S THEN S ELSE Grow(T, E)

SameComp(x, y) ==
  \E k \in 1..Len(comps) : x \in Range(comps[k].idxs) /\ y \in Range(comps[k].idxs)

\* C2: when the comparison loop and the collection have run, two valid items
\* are in the same collected component exactly when a chain of valid items
\* links them with every consecutive Hamming distance <= threshold (checked
\* as the components are handed on, at pc = "report"; nothing assigns comps,
\* hashes or thr afterwards), each valid item is in one component only, and
\* the reported groups are exactly the components with more than one member.
C2_ComponentsAreChains ==
  Collected =>
    /\ pc = "report" =>
         \A E \in {Edges(thr)} :
           \A x \in Valid : {y \in Valid : SameComp(x, y)} = Grow({x}, E)
    /\ \A k \in 1..Len(comps) : Range(comps[k].idxs) \subseteq Valid
    /\ \A k1 \in 1..Len(comps), k2 \in 1..Len(comps) :
         k1 # k2 => Range(comps[k1].idxs) \cap Range(comps[k2].idxs) = {}
    /\ {Range(groups[k]) : k \in 1..Len(groups)}
         = {Range(comps[k].idxs) : k \in {j \in 1..Len(comps) : Len(comps[j].idxs) > 1}}
    /\ Len(groups) = Cardinality({j \in 1..Len(comps) : Len(comps[j].idxs) > 1})

\* Scenario B: two items further apart than the threshold share a group
\* through a third one.
C2_Witness ==
  /\ pc = "report" /\ thr = 5
  /\ \E k \in 1..Len(groups) : \E x \in Range(groups[k]), y \in Range(groups[k]) :
       DiffBits(hashes[x], hashes[y]) = 8

\* C3: an item whose hashing failed (hash -1) is recorded in failures, is
\* never passed to union, is in no component and no group, is neither KEEP
\* nor DEL? in the review manifest nor touched by the deletion, and a run
\* that hashed its files returns 0, never the error code.
C3_FailedItemsExcluded ==
  /\ Hashed =>
       /\ \A i \in Failed :
            /\ files[i] \in Range(failures)
            /\ \A c \in unionCalls : c[1] # i /\ c[2] # i
            /\ Compared => dsu.p[i] = i
            /\ \A k \in 1..Len(comps) : i \notin Range(comps[k].idxs)
            /\ \A k \in 1..Len(groups) : i \notin Range(groups[k])
            /\ Reviewed =>
                 /\ files[i] \in Range(review[1].fails)
                 /\ \A k \in 1..Len(review[1].groups) :
                      /\ review[1].groups[k].keep # files[i]
                      /\ files[i] \notin Range(review[1].groups[k].dupes)
            /\ \A k \in 1..Len(removedLog) : removedLog[k].path # files[i]
            /\ files[i] \in disk
       /\ Len(failures) = Cardinality(Failed)
       /\ pc = "done" => rc = 0

\* A finished run with a failed file, a group and the deletion carried out.
C3_Witness ==
  /\ Returned0 /\ Failed # {} /\ Len(groups) >= 1
  /\ \E k \in 1..Len(removedLog) : removedLog[k].kind = "DEL"

\* C4: in every reported group the keep member is the member with the
\* lexicographically smallest path string, the delete-candidates are all the
\* other members and only those: one keep and size - 1 delete-candidates.
C4_KeepIsSmallestPath ==
  Reviewed =>
    /\ Len(review[1].groups) = Len(groups)
    /\ \A k \in 1..Len(groups) :
         LET e == review[1].groups[k]
             members == {files[i] : i \in Range(groups[k])}
         IN /\ e.keep \in members
            /\ \A m \in members : m = e.keep \/ LexLess(e.keep, m)
            /\ Range(e.dupes) = members \ {e.keep}
            /\ Len(e.dupes) = Cardinality(members) - 1
            /\ e.size = Cardinality(members)
            /\ (pc = "dupes" /\ gi = k) =>
                 removedLog[CHOOSE j \in 1..Len(removedLog) :
                              /\ removedLog[j].kind = "KEEP"
                              /\ \A m \in (j + 1)..Len(removedLog) :
                                   removedLog[m].kind # "KEEP"].path = e.keep

\* A reported group of three files.
C4_Witness ==
  /\ Reviewed
  /\ \E k \in 1..Len(groups) : review[1].groups[k].size = 3

\* The in-range thresholds the command lines above produce.
SampleThresholds == {ThresholdOf(a) : a \in ArgSet} \cap (0..MaxThreshold)

\* C5: clustering is threshold-monotonic: for the same files and hashes,
\* every group produced at threshold T lies inside some group produced at any
\* threshold T' >= T.
C5_ThresholdMonotonic ==
  pc = "report" =>
    \A t2 \in SampleThresholds :
      thr <= t2 =>
        \A wider \in {GroupsAt(files, hashes, t2)} :
          \A k \in 1..Len(groups) :
            \E m \in 1..Len(wider) : Range(groups[k]) \subseteq Range(wider[m])

\* Two groups at threshold 0 that a larger threshold merges into one.
C5_Witness ==
  /\ pc = "report" /\ thr = 0 /\ Len(groups) = 2
  /\ Len(GroupsAt(files, hashes, 5)) = 1

\* C6: a threshold outside [0, 64] is rejected before any work: main returns
\* 2 without hashing a file, without a union, without writing a manifest
\* and without deleting a file.
C6_BadThresholdRejected ==
  (pc # "idle" /\ ThresholdOf(args) \notin 0..MaxThreshold) =>
    /\ pc \in {"start", "done"}
    /\ pc = "done" => rc = 2
    /\ files = Unset /\ hashes = Unset /\ failures = Unset
    /\ dsu = NewDSU(0) /\ pairs = 0 /\ unionCalls = {}
    /\ comps = Unset /\ groups = Unset
    /\ review = Unset /\ removedLog = Unset
    /\ disk \in Directories

\* --threshold 65 --delete --yes on a directory with files: returned 2.
C6_Witness ==
  /\ pc = "done" /\ rc = 2 /\ thr = 65
  /\ args.delete /\ args.yes
  /\ Cardinality(disk) >= 3

\* C7 as stated: with threshold 64 the output is always one group holding
\* all the valid items.
C7_AlwaysOneGroup ==
  (Collected /\ thr = MaxThreshold) =>
    /\ Len(groups) = 1
    /\ Range(groups[1]) = Valid

\* C7, amended: with threshold 64, two or more valid items form exactly one
\* group holding all the valid items; with fewer than two valid items there
\* is no group.
C7_OneGroupWhenTwoValid ==
  (Collected /\ thr = MaxThreshold) =>
    IF Cardinality(Valid) >= 2
      THEN Len(groups) = 1 /\ Range(groups[1]) = Valid
      ELSE groups = <<>>

\* Threshold 64 with three valid items, two of them 64 bits apart, and a
\* failed one.
C7_Witness ==
  /\ Collected /\ thr = MaxThreshold
  /\ Cardinality(Valid) = 3 /\ Failed # {}
  /\ \E x \in Valid, y \in Valid : DiffBits(hashes[x], hashes[y]) = HashBits
  /\ Len(groups) = 1

\* ----- deletion
Listed == pc \notin {"start", "idle"} /\ ~(pc = "done" /\ rc = 2)
WithKind(kinds) == {removedLog[k].path : k \in {j \in 1..Len(removedLog) : removedLog[j].kind \in kinds}}
Candidates == UNION {Range(review[1].groups[k].dupes) : k \in 1..Len(review[1].groups)}
Keeps == {review[1].groups[k].keep : k \in 1..Len(review[1].groups)}

\* C10: no file is removed unless both --delete and --yes are set; then only
\* delete-candidates of reported groups are passed to os.remove, a keep
\* member is never removed, no file is keep in one group and
\* delete-candidate in another, every group still has its keep file, and a
\* failed removal does not stop the remaining ones: at the end every
\* candidate was tried, and is gone unless its removal failed.
C10_DeletionSafety ==
  Listed =>
    /\ disk \subseteq Range(files)
    /\ ~(args.delete /\ args.yes) => (disk = Range(files) /\ removedLog = Unset)
    /\ Reviewed =>
         /\ WithKind({"DEL", "FAIL"}) \subseteq Candidates
         /\ Range(files) \ disk = WithKind({"DEL"})
         /\ Keeps \subseteq disk
         /\ Keeps \cap Candidates = {}
         /\ WithKind({"KEEP"}) \subseteq Keeps
         /\ \A k1 \in 1..Len(groups), k2 \in 1..Len(groups) :
              k1 # k2 => Range(groups[k1]) \cap Range(groups[k2]) = {}
         /\ (Returned0 /\ args.delete /\ args.yes) =>
              /\ WithKind({"DEL", "FAIL"}) = Candidates
              /\ WithKind({"KEEP"}) = Keeps
              /\ \A f \in Candidates : f \in disk => f \in WithKind({"FAIL"})
              /\ Len(removedLog) = 1 + Cardinality(Keeps) + Cardinality(Candidates)

\* A finished deletion over two groups in which a removal failed and a later
\* one succeeded.
C10_Witness ==
  /\ Returned0 /\ args.delete /\ args.yes
  /\ Len(groups) = 2
  /\ \E j \in 1..Len(removedLog), k \in 1..Len(removedLog) :
       j < k /\ removedLog[j].kind = "FAIL" /\ removedLog[k].kind = "DEL"

====
